---- MODULE Spec2Model ----
(***************************************************************************)
(* A model of build_photo_catalog.py: one run of build_catalog.            *)
(*                                                                         *)
(* Units.  Coordinates are whole degrees on one meridian (lon = 0), where  *)
(* the haversine formula reduces to EARTH_RADIUS_MI * |dlat| in radians.   *)
(* Distances and the radius are in thousandths of a mile.  Timestamps are  *)
(* whole seconds of wall-clock time; a UTC offset is in seconds; elapsed   *)
(* time is in seconds (the code's hours times 3600) and speed is in        *)
(* thousandths of a mile per hour.  Python's None and "" are Nil where a   *)
(* non-negative number is expected, "" where a string is expected and the  *)
(* empty tuple elsewhere; a datetime is [t, tz] with tz = <<>> when naive  *)
(* and <<offset>> when aware.                                              *)
(***************************************************************************)
EXTENDS Integers, Sequences, FiniteSets, TLC

\* ------------------------------------------------------------ bounds ----
MaxLat == 2            \* latitudes 0..MaxLat degrees
MaxLoaded == 2         \* anchors in the persisted cache at run start
MaxCacheFiles == 2     \* files of a run of the cache family of inputs
MaxInferFiles == 3     \* files of a run of the inference family of inputs
MaxMotionFiles == 3    \* files of a run of the motion family of inputs
MaxMetaFiles == 2      \* files of a run of the order family of inputs
MaxOffsetFiles == 1    \* files of a run of the offset family of inputs
MaxAddrKeys == 2       \* keys of an address returned by the service

\* --------------------------------------------------------- constants ----
Nil == -1
MilliMilesPerDegree == 69093    \* EARTH_RADIUS_MI * pi / 180, in 1/1000 mile
MAX_MINUTES == 60
SecondsPerMinute == 60
SecondsPerHour == 3600
SecondsPerDay == 86400
Test50Limit == 50      \* if test50 and idx > 50: break

Abs(x) == IF x < 0 THEN -x ELSE x

Lats == 0 .. MaxLat
Radii == {0, 70000, 140000}     \* --radius-mi 0, 70 and 140
InferTimes == {0, 3000, 3600, 3601}
MotionTimes == {0, 3600}
Offsets == {0, 3600}

\* ------------------------------------------------------ place labels ----
DefaultPlace ==
  [city_label |-> "UnknownLocation", neighborhood |-> "", county |-> "",
   state |-> "", country_code |-> "", folder_label |-> "UnknownLocation"]

PlaceA ==
  [city_label |-> "Paris, FR", neighborhood |-> "Montmartre", county |-> "",
   state |-> "", country_code |-> "FR", folder_label |-> "Paris, FR_Montmartre"]

PlaceC ==
  [city_label |-> "Austin, Texas", neighborhood |-> "", county |-> "Travis",
   state |-> "Texas", country_code |-> "US", folder_label |-> "Austin, Texas"]

\* what the call of reverse_geocode does: it returns a label set, or raises
\* in the request (urlopen, json.loads: lines 175-176), or raises while it
\* reads the address of the response (lines 178-191)
GeoOk(place) == [ok |-> TRUE, place |-> place, at |-> "return"]
GeoFail == [ok |-> FALSE, place |-> DefaultPlace, at |-> "request"]
GeoFailAddress == [ok |-> FALSE, place |-> DefaultPlace, at |-> "address"]

Anchor(lat, lon, place) ==
  [lat |-> lat, lon |-> lon,
   city_label |-> place.city_label, neighborhood |-> place.neighborhood,
   county |-> place.county, state |-> place.state,
   country_code |-> place.country_code, folder_label |-> place.folder_label]

PlaceOf(a) ==
  [city_label |-> a.city_label, neighborhood |-> a.neighborhood,
   county |-> a.county, state |-> a.state,
   country_code |-> a.country_code, folder_label |-> a.folder_label]

\* -------------------------------------------------- reverse_geocode ----
\* An address is a function from the keys the service returned to strings.
\* For strings, None is the empty string: the code only tests such values
\* for truth or replaces them by "".
CityKeys == <<"city", "town", "village", "hamlet", "municipality", "county">>

HoodKeys ==
  <<"neighbourhood", "neighborhood", "suburb", "quarter", "locality",
    "borough", "district">>

\* for k in keys: if k in addr: the index of that k, or 0
RECURSIVE FirstPresent(_, _, _)
FirstPresent(addr, keys, i) ==
  IF i > Len(keys) THEN 0
  ELSE IF keys[i] \in DOMAIN addr THEN i
  ELSE FirstPresent(addr, keys, i + 1)

\* addr.get(k), None being ""
Get(addr, k) == IF k \in DOMAIN addr THEN addr[k] ELSE ""

pick_city(addr) ==
  LET i == FirstPresent(addr, CityKeys, 1)
  IN IF i # 0 THEN addr[CityKeys[i]]
     ELSE IF Get(addr, "state") # "" THEN Get(addr, "state")
     ELSE Get(addr, "country")

pick_neighborhood(addr) ==
  LET i == FirstPresent(addr, HoodKeys, 1)
  IN IF i # 0 THEN addr[HoodKeys[i]] ELSE ""

\* str.upper on the country codes of the model
Upper(c) == IF c = "fr" THEN "FR" ELSE c

\* City[, State] | City[, CC]
CityLabel(city, state, country_code) ==
  IF city # "" /\ state # "" THEN city \o ", " \o state
  ELSE IF city # "" /\ country_code # "" THEN city \o ", " \o country_code
  ELSE city

\* the label set reverse_geocode returns for the address of a response
reverse_geocode(addr) ==
  LET city == IF pick_city(addr) # "" THEN pick_city(addr)
              ELSE "UnknownLocation"
      hood == pick_neighborhood(addr)
      county == Get(addr, "county")
      state == Get(addr, "state")
      country_code == Upper(Get(addr, "country_code"))
      city_label == CityLabel(city, state, country_code)
      full_label == IF hood # "" THEN city_label \o "_" \o hood ELSE city_label
  IN [city_label |-> city_label, neighborhood |-> hood, county |-> county,
      state |-> state, country_code |-> country_code,
      folder_label |-> full_label]

\* --------------------------------------------------------- slugify -----
\* the characters str.isalnum accepts, of those the labels of the model use
AlnumChars ==
  {"A", "B", "C", "D", "E", "F", "G", "H", "I", "J", "K", "L", "M", "N", "O",
   "P", "Q", "R", "S", "T", "U", "V", "W", "X", "Y", "Z", "a", "b", "c", "d",
   "e", "f", "g", "h", "i", "j", "k", "l", "m", "n", "o", "p", "q", "r", "s",
   "t", "u", "v", "w", "x", "y", "z", "0", "1", "2", "3", "4", "5", "6", "7",
   "8", "9"}

KeptChars == {" ", "_", "-", ","}

\* the loop over the characters: one outside both sets becomes "_"
RECURSIVE KeepChars(_)
KeepChars(s) ==
  IF s = "" THEN ""
  ELSE LET ch == SubSeq(s, 1, 1)
       IN (IF ch \in AlnumChars \cup KeptChars THEN ch ELSE "_")
          \o KeepChars(SubSeq(s, 2, Len(s)))

\* str.strip(" _-,")
RECURSIVE StripLeft(_)
StripLeft(s) ==
  IF s # "" /\ SubSeq(s, 1, 1) \in KeptChars
  THEN StripLeft(SubSeq(s, 2, Len(s)))
  ELSE s

RECURSIVE StripRight(_)
StripRight(s) ==
  IF s # "" /\ SubSeq(s, Len(s), Len(s)) \in KeptChars
  THEN StripRight(SubSeq(s, 1, Len(s) - 1))
  ELSE s

\* "_".join of the parts of s.split(): every run of blanks becomes one "_"
\* (s neither starts nor ends with a blank)
RECURSIVE JoinParts(_)
JoinParts(s) ==
  IF s = "" THEN ""
  ELSE IF SubSeq(s, 1, 1) = " "
       THEN (IF Len(s) >= 2 /\ SubSeq(s, 2, 2) = " " THEN "" ELSE "_")
            \o JoinParts(SubSeq(s, 2, Len(s)))
       ELSE SubSeq(s, 1, 1) \o JoinParts(SubSeq(s, 2, Len(s)))

slugify(s) ==
  LET joined == JoinParts(StripRight(StripLeft(KeepChars(s))))
  IN IF joined # "" THEN joined ELSE "UnknownLocation"

\* ------------------------------------------------------------- state ----
VARIABLES
  test50,      \* --test50
  pc,          \* "discover", "start", "loop", "infer", "write", "done", "crashed"
  files,       \* the discovered files in processing order, with their metadata
  radius_mi,   \* --radius-mi
  cache_file,  \* TRUE when --cache-file names a path
  cacheFile,   \* the cache file on disk
  anchors,     \* the in-memory anchor list
  loaded,      \* the anchor list as loaded at run start
  idx,         \* index of the next file of the main loop
  rows,        \* the catalog rows built so far
  prev_lat, prev_lon, prev_dt, prev_tz,   \* the previous-GPS-record cursor
  hrs,         \* the loop's hrs variable, which survives from one file to the next
  match,       \* the loop's match variable: index of the matched anchor, 0 for None
  created,     \* anchors appended in this run
  geoLog,      \* the calls of reverse_geocode made so far: [lat, lon, ok, slept]
  csv          \* the catalog file: <<>> until written

vars == <<test50, pc, files, radius_mi, cache_file, cacheFile, anchors, loaded, idx,
          rows, prev_lat, prev_lon, prev_dt, prev_tz, hrs, match, created,
          geoLog, csv>>

\* -------------------------------------------------------- inputs -------
NoDt == [t |-> 0, tz |-> <<>>]

File(gps, dt, geo) == [gps |-> gps, dt |-> dt, geo |-> geo]

\* cache family: every coordinate, the geocoder succeeds or fails, one time
CacheInputs ==
  {File(<<>>, NoDt, GeoFail), File(<<0, 0>>, NoDt, GeoFailAddress)} \cup
  {File(<<lat, 0>>, NoDt, g) : lat \in Lats, g \in {GeoFail, GeoOk(PlaceA)}}

\* inference family: naive timestamps around the 60-minute window
InferInputs ==
  {File(gps, [t |-> t, tz |-> <<>>], GeoOk(PlaceA)) :
     gps \in {<<>>, <<0, 0>>, <<1, 0>>}, t \in InferTimes}

\* motion family: timestamps with and without a UTC offset
MotionInputs ==
  {File(gps, [t |-> t, tz |-> tz], GeoOk(PlaceA)) :
     gps \in {<<>>, <<0, 0>>, <<1, 0>>}, t \in MotionTimes,
     tz \in {<<>>} \cup {<<off>> : off \in Offsets}}

\* geocoding family: one GPS-bearing file and the address the service
\* returns for it; a key that is present is empty or holds a name of its own
AddrNames ==
  [city |-> "Paris", town |-> "Vernon", village |-> "Giverny",
   hamlet |-> "Hameau", municipality |-> "Commune", county |-> "Eure",
   state |-> "Normandie", country |-> "France", country_code |-> "fr",
   neighbourhood |-> "Montmartre", neighborhood |-> "Marais",
   suburb |-> "Passy", quarter |-> "Latin", locality |-> "Lieu",
   borough |-> "Bourg", district |-> "Quartier"]

Addresses ==
  UNION {{a \in [K -> {""} \cup {AddrNames[k] : k \in K}] :
            \A k \in K : a[k] \in {"", AddrNames[k]}} :
         K \in {S \in SUBSET DOMAIN AddrNames : Cardinality(S) <= MaxAddrKeys}}

Located(addr) ==
  [gps |-> <<0, 0>>, dt |-> NoDt, geo |-> GeoOk(reverse_geocode(addr)),
   addr |-> addr]

GeoInputs == {Located(addr) : addr \in Addresses}

\* long family: more files than the limit of --test50, none with GPS; with
\* fewer files than the limit the flag changes nothing
LongInputs ==
  {[i \in 1 .. n |-> File(<<>>, NoDt, GeoFail)] :
     n \in {Test50Limit + 1, Test50Limit + 2}}

SeqsUpTo(S, n) == UNION {[1 .. k -> S] : k \in 0 .. n}
NonEmptySeqsUpTo(S, n) == UNION {[1 .. k -> S] : k \in 1 .. n}

\* a persisted cache is a list this program saved: with radius >= 0 a run
\* never appends an anchor at the coordinate of an anchor it already holds
LoadedLists ==
  {as \in SeqsUpTo({Anchor(lat, 0, PlaceC) : lat \in Lats}, MaxLoaded) :
     \A i, j \in 1 .. Len(as) : i # j => as[i] # as[j]}

\* ------------------------------------------------- the cache file -----
\* The text of the cache file is a JSON array of objects.  A number is its
\* sign and its decimal digits, a string is its characters, an object is the
\* list of its (key, value) members in the order they were written.
RECURSIVE Digits(_)
Digits(n) == IF n < 10 THEN <<n>> ELSE Append(Digits(n \div 10), n % 10)

RECURSIVE DigitsValue(_)
DigitsValue(ds) ==
  IF ds = <<>> THEN 0
  ELSE 10 * DigitsValue(SubSeq(ds, 1, Len(ds) - 1)) + ds[Len(ds)]

JsonNumber(x) == [type |-> "number", neg |-> x < 0, digits |-> Digits(Abs(x))]
JsonString(x) == [type |-> "string", neg |-> FALSE, digits |-> <<x>>]

\* the members of an anchor, in the insertion order of the dict of 367-375
AnchorKeys ==
  <<"lat", "lon", "city_label", "neighborhood", "county", "state",
    "country_code", "folder_label">>

JsonObject(a) ==
  <<<<"lat", JsonNumber(a.lat)>>, <<"lon", JsonNumber(a.lon)>>,
    <<"city_label", JsonString(a.city_label)>>,
    <<"neighborhood", JsonString(a.neighborhood)>>,
    <<"county", JsonString(a.county)>>, <<"state", JsonString(a.state)>>,
    <<"country_code", JsonString(a.country_code)>>,
    <<"folder_label", JsonString(a.folder_label)>>>>

\* json.dump(anchors, f, ensure_ascii=False, indent=2)
json_dump(as) == [i \in 1 .. Len(as) |-> JsonObject(as[i])]

JsonValue(v) ==
  IF v.type = "number"
  THEN (IF v.neg THEN -1 ELSE 1) * DigitsValue(v.digits)
  ELSE v.digits[1]

JsonMember(obj, key) ==
  JsonValue(obj[CHOOSE k \in 1 .. Len(obj) : obj[k][1] = key][2])

\* a loader that reads the array back to front
json_loadReversed(text) ==
  [i \in 1 .. Len(text) |->
     [key \in {AnchorKeys[k] : k \in 1 .. Len(AnchorKeys)} |->
        JsonMember(text[Len(text) + 1 - i], key)]]

\* json.load(f): a list of dicts, one per object of the array
json_load(text) ==
  [i \in 1 .. Len(text) |->
     [key \in {AnchorKeys[k] : k \in 1 .. Len(AnchorKeys)} |->
        JsonMember(text[i], key)]]

CacheFileAbsent == [state |-> "absent", text |-> <<>>]
CacheFileCorrupt == [state |-> "corrupt", text |-> <<>>]
CacheFileOk(as) == [state |-> "ok", text |-> json_dump(as)]

\* ------------------------------------------------- pure functions ------
\* haversine_miles for two points of one meridian, in 1/1000 mile
haversine_miles(lat1, lon1, lat2, lon2) == MilliMilesPerDegree * Abs(lat2 - lat1)

\* the for/break loop over anchors: index of the first anchor in radius, or 0
RECURSIVE AnchorLoop(_, _, _, _, _)
AnchorLoop(as, lat, lon, r, i) ==
  IF i > Len(as) THEN 0
  ELSE IF haversine_miles(lat, lon, as[i].lat, as[i].lon) <= r THEN i
  ELSE AnchorLoop(as, lat, lon, r, i + 1)

\* a lookup without the break: the last anchor in radius wins
RECURSIVE AnchorLoopLast(_, _, _, _, _, _)
AnchorLoopLast(as, lat, lon, r, i, found) ==
  IF i > Len(as) THEN found
  ELSE IF haversine_miles(lat, lon, as[i].lat, as[i].lon) <= r
       THEN AnchorLoopLast(as, lat, lon, r, i + 1, i)
       ELSE AnchorLoopLast(as, lat, lon, r, i + 1, found)

AnchorLookupLast(as, lat, lon, r) == AnchorLoopLast(as, lat, lon, r, 1, 0)

\* a lookup that compares with < instead of <=
RECURSIVE AnchorLoopStrict(_, _, _, _, _)
AnchorLoopStrict(as, lat, lon, r, i) ==
  IF i > Len(as) THEN 0
  ELSE IF haversine_miles(lat, lon, as[i].lat, as[i].lon) < r THEN i
  ELSE AnchorLoopStrict(as, lat, lon, r, i + 1)

AnchorLookupStrict(as, lat, lon, r) == AnchorLoopStrict(as, lat, lon, r, 1)

AnchorLookup(as, lat, lon, r) == AnchorLoop(as, lat, lon, r, 1)

\* the place label of a GPS-bearing record: the matched anchor's, else the
\* geocoder's, else (the call raised) the defaults
PlaceFor(as, m, geo) ==
  IF m # 0 THEN PlaceOf(as[m])
  ELSE IF geo.ok THEN geo.place
  ELSE DefaultPlace

\* an anchor list that registers nothing when the call raised
AnchorsAfterSkipFailed(as, m, lat, lon, geo) ==
  IF m # 0 \/ ~geo.ok THEN as
  ELSE Append(as, Anchor(lat, lon, PlaceFor(as, m, geo)))

\* an anchor list that registers an anchor for every GPS-bearing record
AnchorsAfterAlways(as, m, lat, lon, geo) ==
  Append(as, Anchor(lat, lon, PlaceFor(as, m, geo)))

\* an anchor list that puts the new anchor in front
AnchorsAfterPrepend(as, m, lat, lon, geo) ==
  IF m # 0 THEN as
  ELSE <<Anchor(lat, lon, PlaceFor(as, m, geo))>> \o as

\* the anchor list after the match/else block
AnchorsAfter(as, m, lat, lon, geo) ==
  IF m # 0 THEN as
  ELSE Append(as, Anchor(lat, lon, PlaceFor(as, m, geo)))

\* time.sleep follows the with-block of urlopen and precedes the reading of
\* the address: it is reached unless the request or the decoding of its
\* response raised
SleptAfter(geo) == geo.at # "request"

\* reverse_geocode is called on a miss only
GeoLogAfter(log, m, lat, lon, geo) ==
  IF m # 0 THEN log
  ELSE Append(log, [lat |-> lat, lon |-> lon, ok |-> geo.ok,
                    slept |-> SleptAfter(geo)])

\* the timezone column: "" or UTC{sign}{hh:02d}:{mm:02d}, as <<sign, hh, mm>>
TimezoneString(dt) ==
  IF dt.tz = <<>> THEN <<>>
  ELSE LET total_minutes == dt.tz[1] \div SecondsPerMinute
       IN <<IF total_minutes >= 0 THEN "+" ELSE "-",
            Abs(total_minutes) \div 60, Abs(total_minutes) % 60>>

Aware(dt) == dt.tz # <<>>
UtcOf(dt) == dt.t - dt.tz[1]

\* dt - prev_dt raises TypeError when exactly one of the two is aware
MixedAwareness(dt, pdt) == Aware(dt) # Aware(pdt)

\* the value of hrs after the elapsed-time block, given its value before
ElapsedHrs(dt, pdt, old_hrs) ==
  IF Aware(dt) /\ Aware(pdt) THEN Abs(UtcOf(dt) - UtcOf(pdt))
  ELSE IF MixedAwareness(dt, pdt) THEN old_hrs
  ELSE Abs(dt.t - pdt.t)

SpeedMph(dist, h) == IF h > 0 THEN (dist * SecondsPerHour) \div h ELSE Nil

\* ---------------------------------------------------- inference pass ---
\* the known list: (known_dt, lat, lon) of every row with a coordinate
RECURSIVE KnownFrom(_, _)
KnownFrom(rs, i) ==
  IF i > Len(rs) THEN <<>>
  ELSE IF rs[i].lat # Nil /\ rs[i].lon # Nil
       THEN <<[dt |-> rs[i].date * SecondsPerDay + rs[i].time,
               lat |-> rs[i].lat, lon |-> rs[i].lon]>> \o KnownFrom(rs, i + 1)
       ELSE KnownFrom(rs, i + 1)

Known(rs) == KnownFrom(rs, 1)

\* a window one minute too wide
WithinWindowWide(delta_sec) == delta_sec <= (MAX_MINUTES + 1) * SecondsPerMinute

WithinWindow(delta_sec) == delta_sec <= MAX_MINUTES * SecondsPerMinute

\* the loop over known for one recipient: best is <<>> or <<lat, lon>>
RECURSIVE BestLoop(_, _, _, _, _)
BestLoop(known, r_dt, k, best, best_delta) ==
  IF k > Len(known) THEN best
  ELSE LET delta == Abs(known[k].dt - r_dt)
       IN IF WithinWindow(delta) /\ (best = <<>> \/ delta < best_delta)
          THEN BestLoop(known, r_dt, k + 1, <<known[k].lat, known[k].lon>>, delta)
          ELSE BestLoop(known, r_dt, k + 1, best, best_delta)

\* a search that keeps the first donor of the window
RECURSIVE BestLoopFirst(_, _, _)
BestLoopFirst(known, r_dt, k) ==
  IF k > Len(known) THEN <<>>
  ELSE IF WithinWindow(Abs(known[k].dt - r_dt))
       THEN <<known[k].lat, known[k].lon>>
       ELSE BestLoopFirst(known, r_dt, k + 1)

BestFirst(known, r) == BestLoopFirst(known, r.date * SecondsPerDay + r.time, 1)

Best(known, r) == BestLoop(known, r.date * SecondsPerDay + r.time, 1, <<>>, 0)

IsRecipient(r) == r.geo_source = "Unknown" /\ (r.lat = Nil \/ r.lon = Nil)

\* an inference that also resets the place label of the recipient
InferRowRelabel(known, r) ==
  IF IsRecipient(r) /\ Best(known, r) # <<>>
  THEN [r EXCEPT !.lat = Best(known, r)[1], !.lon = Best(known, r)[2],
                 !.geo_source = "inferred", !.city_label = ""]
  ELSE r

InferRow(known, r) ==
  IF IsRecipient(r) /\ Best(known, r) # <<>>
  THEN [r EXCEPT !.lat = Best(known, r)[1], !.lon = Best(known, r)[2],
                 !.geo_source = "inferred"]
  ELSE r

InferRows(rs) == [i \in 1 .. Len(rs) |-> InferRow(Known(rs), rs[i])]

\* --------------------------------------------------------- actions -----
Init ==
  /\ pc = "start"
  /\ \/ /\ files \in NonEmptySeqsUpTo(CacheInputs, MaxCacheFiles)
        /\ radius_mi \in Radii
        /\ \/ /\ cache_file = TRUE
              /\ cacheFile \in {CacheFileAbsent, CacheFileCorrupt}
                                 \cup {CacheFileOk(as) : as \in LoadedLists}
           \/ /\ cache_file = FALSE
              /\ cacheFile = CacheFileAbsent
        /\ test50 = FALSE
     \/ /\ files \in NonEmptySeqsUpTo(InferInputs, MaxInferFiles)
                       \cup NonEmptySeqsUpTo(MotionInputs, MaxMotionFiles)
                       \cup {<<f>> : f \in GeoInputs}
        /\ radius_mi = 70000
        /\ cache_file = TRUE
        /\ cacheFile = CacheFileAbsent
        /\ test50 = FALSE
     \/ /\ files \in LongInputs
        /\ radius_mi = 70000
        /\ cache_file = TRUE
        /\ cacheFile = CacheFileAbsent
        /\ test50 \in BOOLEAN
  /\ anchors = <<>>
  /\ loaded = <<>>
  /\ idx = 1
  /\ rows = <<>>
  /\ prev_lat = Nil /\ prev_lon = Nil /\ prev_dt = NoDt /\ prev_tz = <<>>
  /\ hrs = Nil
  /\ match = 0
  /\ created = 0
  /\ geoLog = <<>>
  /\ csv = <<>>

\* load cache
LoadCache ==
  /\ pc = "start"
  /\ anchors' = IF cache_file /\ cacheFile.state = "ok"
                THEN json_load(cacheFile.text)
                ELSE <<>>
  /\ loaded' = anchors'
  /\ pc' = "loop"
  /\ UNCHANGED <<test50, files, radius_mi, cache_file, cacheFile, idx, rows,
                 prev_lat, prev_lon, prev_dt, prev_tz, hrs, match, created,
                 geoLog, csv>>

Row(i, dt, timezone, gps, dist, h, speed, place) ==
  [source |-> i,
   date |-> dt.t \div SecondsPerDay, time |-> dt.t % SecondsPerDay,
   timezone |-> timezone,
   lat |-> IF gps # <<>> THEN gps[1] ELSE Nil,
   lon |-> IF gps # <<>> THEN gps[2] ELSE Nil,
   geo_source |-> IF gps # <<>> THEN "EXIF" ELSE "Unknown",
   miles_from_prev_pic |-> dist, hrs_from_prev_pic |-> h,
   mph_from_prev_pic |-> speed,
   city_label |-> place.city_label, neighborhood |-> place.neighborhood,
   county |-> place.county, state |-> place.state,
   country_code |-> place.country_code,
   proposed_folder |-> <<slugify(place.folder_label), dt.t \div SecondsPerDay>>]

\* hrs > 0 raises TypeError when hrs is still None from the previous file
Crashes(f) ==
  /\ f.gps # <<>>
  /\ prev_lat # Nil /\ prev_lon # Nil
  /\ MixedAwareness(f.dt, prev_dt)
  /\ hrs = Nil

\* one iteration of the main loop
ProcessRecord ==
  /\ pc = "loop"
  /\ LET f == files[idx]
         dt == f.dt
         gps == f.gps
         timezone == TimezoneString(dt)
         after == IF idx = Len(files) \/ (test50 /\ idx > Test50Limit)
                  THEN "infer" ELSE "loop"
     IN IF gps # <<>>
        THEN LET lat == gps[1]
                 lon == gps[2]
                 m == AnchorLookup(anchors, lat, lon, radius_mi)
                 hasPrev == prev_lat # Nil /\ prev_lon # Nil
                 dist == IF hasPrev
                         THEN haversine_miles(lat, lon, prev_lat, prev_lon)
                         ELSE Nil
                 h == IF hasPrev THEN ElapsedHrs(dt, prev_dt, hrs) ELSE Nil
                 speed == IF hasPrev THEN SpeedMph(dist, h) ELSE Nil
                 place == PlaceFor(anchors, m, f.geo)
             IN IF Crashes(f)
                THEN /\ pc' = "crashed"
                     /\ match' = m
                     /\ UNCHANGED <<anchors, idx, rows, prev_lat, prev_lon,
                                    prev_dt, prev_tz, hrs, created, geoLog>>
                ELSE /\ match' = m
                     /\ hrs' = h
                     /\ prev_lat' = lat /\ prev_lon' = lon
                     /\ prev_dt' = dt /\ prev_tz' = timezone
                     /\ geoLog' = GeoLogAfter(geoLog, m, lat, lon, f.geo)
                     /\ anchors' = AnchorsAfter(anchors, m, lat, lon, f.geo)
                     /\ created' = IF m # 0 THEN created ELSE created + 1
                     /\ rows' = Append(rows, Row(idx, dt, timezone, gps, dist,
                                                 h, speed, place))
                     /\ idx' = idx + 1
                     /\ pc' = after
        ELSE /\ hrs' = Nil
             /\ rows' = Append(rows, Row(idx, dt, timezone, gps, Nil, Nil, Nil,
                                         DefaultPlace))
             /\ idx' = idx + 1
             /\ pc' = after
             /\ UNCHANGED <<anchors, prev_lat, prev_lon, prev_dt, prev_tz,
                            match, created, geoLog>>
  /\ UNCHANGED <<test50, files, radius_mi, cache_file, cacheFile, loaded, csv>>

\* infer missing GPS by temporal proximity
InferPass ==
  /\ pc = "infer"
  /\ rows' = InferRows(rows)
  /\ pc' = "write"
  /\ UNCHANGED <<test50, files, radius_mi, cache_file, cacheFile, anchors,
                 loaded, idx, prev_lat, prev_lon, prev_dt, prev_tz, hrs, match,
                 created, geoLog, csv>>

\* write CSV, save cache
WriteOutputs ==
  /\ pc = "write"
  /\ csv' = rows
  /\ cacheFile' = IF cache_file THEN CacheFileOk(anchors) ELSE cacheFile
  /\ pc' = "done"
  /\ UNCHANGED <<test50, files, radius_mi, cache_file, anchors, loaded, idx,
                 rows, prev_lat, prev_lon, prev_dt, prev_tz, hrs, match,
                 created, geoLog>>

Next == LoadCache \/ ProcessRecord \/ InferPass \/ WriteOutputs

Spec == Init /\ [][Next]_vars

\* ------------------------------------------- discovery and metadata ----
\* A second family of runs starts one stage earlier, at the directory walk:
\* files holds [meta, mtime, geo] per discovered file in walk order, and the
\* discovery stage sorts them and reads their metadata.  A timestamp field is
\* <<>> when absent or empty, else <<format, seconds>>; an offset field is
\* <<>> or <<sign character, hours, minutes>> for a string like "-05:30".
FormatColon == "%Y:%m:%d %H:%M:%S"
FormatDash == "%Y-%m-%d %H:%M:%S"
FormatOther == "other"

Meta(dto, cd, oto, ot, otd, lat, lon) ==
  [DateTimeOriginal |-> dto, CreateDate |-> cd, OffsetTimeOriginal |-> oto,
   OffsetTime |-> ot, OffsetTimeDigitized |-> otd,
   GPSLatitude |-> lat, GPSLongitude |-> lon]

Found(meta, mtime, geo) == [meta |-> meta, mtime |-> mtime, geo |-> geo]

\* a or b of two metadata values
Or(a, b) == IF a # <<>> THEN a ELSE b

\* raw = meta.get("DateTimeOriginal") or meta.get("CreateDate")
RawTimestamp(meta) == Or(meta.DateTimeOriginal, meta.CreateDate)

\* an offset lookup that prefers the digitized field
FirstOffsetDigitizedFirst(meta) ==
  Or(meta.OffsetTimeDigitized, Or(meta.OffsetTimeOriginal, meta.OffsetTime))

\* offset_raw = OffsetTimeOriginal or OffsetTime or OffsetTimeDigitized
FirstOffset(meta) ==
  Or(meta.OffsetTimeOriginal, Or(meta.OffsetTime, meta.OffsetTimeDigitized))

\* datetime.strptime(raw, fmt): <<seconds>>, or <<>> when it raises
strptime(raw, fmt) == IF raw[1] = fmt THEN <<raw[2]>> ELSE <<>>

\* the for loop over the two formats
ParsedTimestamp(raw) == Or(strptime(raw, FormatColon), strptime(raw, FormatDash))

\* timezone(timedelta(hours=sign * oh, minutes=sign * om)): <<seconds>>, or
\* <<>> when it raises ValueError, the offset not being strictly between
\* -24 h and +24 h
ParseOffset(offset_raw) ==
  LET sign == IF offset_raw[1] # "-" THEN 1 ELSE -1
      oh == offset_raw[2]
      om == offset_raw[3]
      seconds == sign * oh * SecondsPerHour + sign * om * SecondsPerMinute
  IN IF Abs(seconds) < SecondsPerDay THEN <<seconds>> ELSE <<>>

parse_dt(meta, mtime) ==
  LET raw == RawTimestamp(meta)
      offset_raw == FirstOffset(meta)
  IN IF raw # <<>> /\ ParsedTimestamp(raw) # <<>>
     THEN [t |-> ParsedTimestamp(raw)[1],
           tz |-> IF offset_raw # <<>> THEN ParseOffset(offset_raw)
                  ELSE <<>>]
     ELSE [t |-> mtime, tz |-> <<0>>]

get_latlon(meta) ==
  IF meta.GPSLatitude # <<>> /\ meta.GPSLongitude # <<>>
  THEN <<meta.GPSLatitude[1], meta.GPSLongitude[1]>>
  ELSE <<>>

\* list.sort is stable: an element goes behind the elements whose key is
\* not greater than its own
RECURSIVE InsertByMtime(_, _)
InsertByMtime(sorted, x) ==
  IF sorted = <<>> THEN <<x>>
  ELSE IF x.mtime < sorted[Len(sorted)].mtime
       THEN Append(InsertByMtime(SubSeq(sorted, 1, Len(sorted) - 1), x),
                   sorted[Len(sorted)])
       ELSE Append(sorted, x)

\* files.sort(key=lambda p: os.path.getmtime(p))
RECURSIVE SortedFiles(_)
SortedFiles(fs) ==
  IF fs = <<>> THEN <<>>
  ELSE InsertByMtime(SortedFiles(SubSeq(fs, 1, Len(fs) - 1)), fs[Len(fs)])

\* what the main loop reads of a file: dt = parse_dt(meta, p), gps = get_latlon(meta)
Read(f) ==
  [gps |-> get_latlon(f.meta), dt |-> parse_dt(f.meta, f.mtime),
   geo |-> f.geo, meta |-> f.meta, mtime |-> f.mtime]

\* timestamps of the metadata and of the file system, in seconds
CaptureEarly == 0
CaptureLate == 7200
Mtimes == {100000, 200000}

OffsetStrings == {<<"+", 1, 0>>, <<"-", 0, 30>>, <<"-", 0, 0>>}

\* "+24:00": digits that make no timezone
OffsetOutOfRange == <<"+", 24, 0>>

\* offset family: one timestamp per field, every combination of the three
\* offset fields, no GPS
OffsetMetas ==
  {Meta(dto, cd, oto, ot, otd, <<>>, <<>>) :
     dto \in {<<>>, <<FormatOther, CaptureEarly>>, <<FormatColon, CaptureEarly>>},
     cd \in {<<>>, <<FormatDash, CaptureLate>>},
     oto \in {<<>>, OffsetOutOfRange} \cup OffsetStrings,
     ot \in {<<>>} \cup OffsetStrings,
     otd \in {<<>>} \cup OffsetStrings}

\* order family: capture time and file-modification time vary independently
OrderMetas ==
  {Meta(dto, <<>>, <<>>, <<>>, <<>>, gps, gps) :
     dto \in {<<>>, <<FormatColon, CaptureEarly>>, <<FormatColon, CaptureLate>>},
     gps \in {<<>>, <<0>>}}

InitMeta ==
  /\ pc = "discover"
  /\ \/ files \in NonEmptySeqsUpTo(
                    {Found(m, 100000, GeoOk(PlaceA)) : m \in OffsetMetas},
                    MaxOffsetFiles)
     \/ files \in NonEmptySeqsUpTo(
                    {Found(m, mt, GeoOk(PlaceA)) : m \in OrderMetas, mt \in Mtimes},
                    MaxMetaFiles)
  /\ radius_mi = 70000
  /\ cache_file = TRUE
  /\ cacheFile = CacheFileAbsent
  /\ test50 = FALSE
  /\ anchors = <<>>
  /\ loaded = <<>>
  /\ idx = 1
  /\ rows = <<>>
  /\ prev_lat = Nil /\ prev_lon = Nil /\ prev_dt = NoDt /\ prev_tz = <<>>
  /\ hrs = Nil
  /\ match = 0
  /\ created = 0
  /\ geoLog = <<>>
  /\ csv = <<>>

\* discover files, sort them, read their metadata
Discover ==
  /\ pc = "discover"
  /\ files' = [i \in 1 .. Len(files) |-> Read(SortedFiles(files)[i])]
  /\ pc' = "start"
  /\ UNCHANGED <<test50, radius_mi, cache_file, cacheFile, anchors, loaded,
                 idx, rows, prev_lat, prev_lon, prev_dt, prev_tz, hrs, match,
                 created, geoLog, csv>>

NextMeta == Discover \/ LoadCache \/ ProcessRecord \/ InferPass \/ WriteOutputs

SpecMeta == InitMeta /\ [][NextMeta]_vars

\* ------------------------------------------------- claims: helpers -----
IsPrefix(s, t) == Len(s) <= Len(t) /\ SubSeq(t, 1, Len(s)) = s

Last(s) == s[Len(s)]

\* a place label as a catalog row shows it: the folder label is slugified
AsInRow(place) == [place EXCEPT !.folder_label = slugify(@)]

\* the place label a catalog row carries
PlaceOfRow(r) ==
  [city_label |-> r.city_label, neighborhood |-> r.neighborhood,
   county |-> r.county, state |-> r.state, country_code |-> r.country_code,
   folder_label |-> r.proposed_folder[1]]

\* the anchors within radius of a coordinate, by insertion index
InRadius(as, gps, r) ==
  {i \in 1 .. Len(as) :
     haversine_miles(gps[1], gps[2], as[i].lat, as[i].lon) <= r}

\* this step is an iteration of the main loop over a GPS-bearing file
LoopOnGps == pc = "loop" /\ files[idx].gps # <<>>

\* this step is an iteration of the main loop that ran to its end
Processed == pc = "loop" /\ pc' # "crashed"

SameCoordinate(a, gps) == a.lat = gps[1] /\ a.lon = gps[2]

\* ------------------------------------------------------------ C1 -------
\* C1: the anchor lookup of a GPS-bearing file returns the anchor of smallest
\* insertion index among those within radius of its coordinate, never an
\* anchor farther than radius, and no match when no anchor is within radius.
C1_FirstAnchorInRadius ==
  [][LoopOnGps =>
       LET S == InRadius(anchors, files[idx].gps, radius_mi)
       IN IF S = {} THEN match' = 0
          ELSE match' \in S /\ \A j \in S : match' <= j]_vars

\* a hit on an anchor although a later anchor is in radius and nearer
C1_Witness ==
  /\ pc \in {"loop", "infer"}
  /\ rows # <<>>
  /\ Last(rows).geo_source = "EXIF"
  /\ match >= 1
  /\ \E j \in (match + 1) .. Len(anchors) :
       LET dj == haversine_miles(Last(rows).lat, Last(rows).lon,
                                 anchors[j].lat, anchors[j].lon)
           dm == haversine_miles(Last(rows).lat, Last(rows).lon,
                                 anchors[match].lat, anchors[match].lon)
       IN dj < dm /\ dm <= radius_mi

\* ------------------------------------------------------------ C2 -------
\* C2: a processed GPS-bearing record with an anchor within radius makes no
\* geocode call, appends no anchor and takes the matched anchor's place
\* label; one with no anchor within radius makes exactly one call and
\* appends exactly one anchor at its coordinate; a record without GPS makes
\* no call and appends nothing.
C2_CallAndAppendOnMissOnly ==
  [][Processed =>
       LET gps == files[idx].gps
       IN IF gps = <<>>
          THEN geoLog' = geoLog /\ anchors' = anchors
          ELSE IF InRadius(anchors, gps, radius_mi) # {}
          THEN /\ geoLog' = geoLog
               /\ anchors' = anchors
               /\ match' \in InRadius(anchors, gps, radius_mi)
               /\ PlaceOfRow(Last(rows')) = AsInRow(PlaceOf(anchors[match']))
          ELSE /\ Len(geoLog') = Len(geoLog) + 1
               /\ IsPrefix(geoLog, geoLog')
               /\ SameCoordinate(Last(geoLog'), gps)
               /\ Len(anchors') = Len(anchors) + 1
               /\ IsPrefix(anchors, anchors')
               /\ SameCoordinate(Last(anchors'), gps)]_vars

\* a miss followed by a hit on the anchor the miss created, one degree away
C2_Witness ==
  /\ radius_mi = 70000
  /\ Len(rows) = 2
  /\ rows[1].geo_source = "EXIF" /\ rows[2].geo_source = "EXIF"
  /\ rows[1].lat # rows[2].lat
  /\ Len(geoLog) = 1
  /\ loaded = <<>> /\ Len(anchors) = 1
  /\ match = 1
  /\ PlaceOfRow(rows[2]) = AsInRow(PlaceOf(anchors[1]))

\* ------------------------------------------------------------ C3 -------
\* C3 as stated: when the geocode call of a record fails no anchor is
\* registered from the attempt and the record keeps the default label, so
\* every anchor was loaded or produced by one successful call.
C3_Original ==
  [][(Processed /\ LoopOnGps /\ match' = 0 /\ ~files[idx].geo.ok) =>
       /\ anchors' = anchors
       /\ PlaceOfRow(Last(rows')) = AsInRow(DefaultPlace)]_vars

\* C3 as amended: when the geocode call of a record fails the record keeps
\* the default label and an anchor with that default label is still
\* registered at the record's coordinate; every anchor was loaded or
\* registered after exactly one geocode call, successful or failed.
C3_FailedCallStillRegisters ==
  [][/\ (Processed /\ LoopOnGps /\ match' = 0 /\ ~files[idx].geo.ok) =>
          /\ anchors' = Append(anchors, Anchor(files[idx].gps[1],
                                               files[idx].gps[2], DefaultPlace))
          /\ PlaceOfRow(Last(rows')) = AsInRow(DefaultPlace)
          /\ ~Last(geoLog').ok
     /\ Len(anchors') = Len(loaded') + Len(geoLog')
     /\ created' = Len(geoLog')]_vars

\* a failed call has left an UnknownLocation anchor behind a loaded one
C3_Witness ==
  /\ Len(loaded) = 1
  /\ Len(anchors) = 2
  /\ Len(geoLog) = 1 /\ ~geoLog[1].ok
  /\ PlaceOf(anchors[2]) = DefaultPlace
  /\ SameCoordinate(anchors[2], <<geoLog[1].lat, geoLog[1].lon>>)
  /\ rows # <<>> /\ PlaceOfRow(Last(rows)) = AsInRow(DefaultPlace)
  /\ Last(rows).geo_source = "EXIF"

\* ------------------------------------------------------------ C4 -------
\* C4: once the geocode call has failed for a coordinate, no later record of
\* the run with that same coordinate makes a geocode call, whatever the
\* radius.
C4_NoRetryAfterFailure ==
  [][(LoopOnGps /\ \E k \in 1 .. Len(geoLog) :
                      ~geoLog[k].ok /\ SameCoordinate(geoLog[k], files[idx].gps))
       => geoLog' = geoLog]_vars

\* radius 0: the call failed for the first record and the second record, at
\* the same coordinate, was processed without a second call
C4_Witness ==
  /\ radius_mi = 0
  /\ loaded = <<>>
  /\ Len(rows) = 2
  /\ Len(geoLog) = 1 /\ ~geoLog[1].ok
  /\ \A i \in 1 .. 2 : rows[i].geo_source = "EXIF"
                       /\ rows[i].lat = geoLog[1].lat
                       /\ rows[i].lon = geoLog[1].lon

\* ------------------------------------------------------------ C5 -------
\* C5 as stated: with radius 0 every processed GPS-bearing record makes a
\* fresh geocode call, also when its coordinate is that of an anchor.
C5_Original ==
  [][(Processed /\ LoopOnGps /\ radius_mi = 0) =>
       Len(geoLog') = Len(geoLog) + 1]_vars

\* C5 as amended: with radius 0 a processed GPS-bearing record makes a fresh
\* geocode call exactly when no anchor is at distance 0 from its coordinate;
\* a record at the coordinate of an anchor reuses that anchor.
C5_RadiusZeroReusesIdentical ==
  [][(Processed /\ LoopOnGps /\ radius_mi = 0) =>
       LET gps == files[idx].gps
       IN IF \E i \in 1 .. Len(anchors) :
               haversine_miles(gps[1], gps[2], anchors[i].lat, anchors[i].lon) = 0
          THEN geoLog' = geoLog /\ anchors' = anchors /\ match' # 0
          ELSE /\ Len(geoLog') = Len(geoLog) + 1
               /\ SameCoordinate(Last(geoLog'), gps)
               /\ match' = 0]_vars

\* radius 0: a successful call, then a record at the same coordinate that
\* reuses the anchor and its label without a call
C5_Witness ==
  /\ radius_mi = 0
  /\ loaded = <<>>
  /\ Len(rows) = 2
  /\ Len(geoLog) = 1 /\ geoLog[1].ok
  /\ \A i \in 1 .. 2 : rows[i].geo_source = "EXIF"
                       /\ rows[i].lat = geoLog[1].lat
                       /\ rows[i].lon = geoLog[1].lon
  /\ PlaceOfRow(rows[2]) = AsInRow(PlaceA)

\* ------------------------------------------------------------ C6 -------
\* C6: the anchor list changes by appends at its end only, the list loaded
\* at run start stays a prefix of it, and the list written to the cache file
\* at run end is the whole list: the loaded anchors followed by the anchors
\* created in this run in creation order.
C6_AppendOnly ==
  [][/\ pc # "start" => IsPrefix(anchors, anchors')
     /\ pc' # "start" => IsPrefix(loaded', anchors')
     /\ loaded # <<>> => loaded' = loaded
     /\ (pc' = "done" /\ cache_file') =>
          /\ cacheFile' = CacheFileOk(anchors')
          /\ Len(anchors') = Len(loaded') + Len(geoLog')
          /\ \A k \in 1 .. Len(geoLog') :
               SameCoordinate(anchors'[Len(loaded') + k],
                              <<geoLog'[k].lat, geoLog'[k].lon>>)]_vars

\* a finished run that loaded anchors and created one at another coordinate
C6_Witness ==
  /\ pc = "done"
  /\ Len(loaded) = 2
  /\ Len(anchors) = 3
  /\ cacheFile = CacheFileOk(anchors)
  /\ anchors[3].lat # anchors[1].lat /\ anchors[3].lat # anchors[2].lat

\* ------------------------------------------------------------ C7 -------
RowTime(r) == r.date * SecondsPerDay + r.time

HasCoordinate(r) == r.lat # Nil /\ r.lon # Nil

TimeApart(r, q) == Abs(RowTime(r) - RowTime(q))

\* C7: in the inference pass a record without a coordinate whose every
\* coordinate-bearing record is more than 60 minutes away in capture time
\* receives no coordinate: it is still without coordinate and unknown in
\* the catalog written at the end of the run.
C7_NoDonorBeyondWindow ==
  [][/\ pc = "infer" =>
          \A i \in 1 .. Len(rows) :
            (/\ ~HasCoordinate(rows[i])
             /\ \A j \in 1 .. Len(rows) :
                  HasCoordinate(rows[j]) =>
                    TimeApart(rows[j], rows[i]) > 60 * 60)
            => /\ rows'[i].lat = Nil /\ rows'[i].lon = Nil
               /\ rows'[i].geo_source = "Unknown"
     /\ pc = "write" => csv' = rows]_vars

\* a catalog with an unknown record 60 minutes and 1 second from a donor
C7_Witness ==
  /\ pc = "done"
  /\ \E i, j \in 1 .. Len(csv) :
       /\ csv[i].geo_source = "Unknown" /\ csv[i].lat = Nil
       /\ csv[j].geo_source = "EXIF"
       /\ TimeApart(csv[i], csv[j]) = 60 * 60 + 1

\* ------------------------------------------------------------ C8 -------
\* the donors of a recipient: rows that had a coordinate before the pass,
\* at most 60 minutes from it
DonorsOf(rs, i) ==
  {j \in 1 .. Len(rs) :
     HasCoordinate(rs[j]) /\ TimeApart(rs[j], rs[i]) <= 60 * 60}

\* C8: in the inference pass every unknown record with a donor within 60
\* minutes gets the coordinate of a donor nearest in time and becomes
\* inferred, the donors being the records that had a coordinate before the
\* pass; an unknown record without such a donor is left as it is.
C8_NearestDonorWins ==
  [][pc = "infer" =>
       \A i \in 1 .. Len(rows) :
         rows[i].geo_source = "Unknown" =>
           IF DonorsOf(rows, i) # {}
           THEN /\ rows'[i].geo_source = "inferred"
                /\ \E j \in DonorsOf(rows, i) :
                     /\ \A k \in DonorsOf(rows, i) :
                          TimeApart(rows[j], rows[i]) <= TimeApart(rows[k], rows[i])
                     /\ rows'[i].lat = rows[j].lat
                     /\ rows'[i].lon = rows[j].lon
           ELSE rows'[i] = rows[i]]_vars

\* a recipient with two donors in the window took the coordinate of the
\* nearer one, which comes later in the catalog than the farther one
C8_Witness ==
  /\ pc = "write"
  /\ \E i, j, k \in 1 .. Len(rows) :
       /\ rows[i].geo_source = "inferred"
       /\ rows[j].geo_source = "EXIF" /\ rows[k].geo_source = "EXIF"
       /\ j < k
       /\ TimeApart(rows[k], rows[i]) < TimeApart(rows[j], rows[i])
       /\ TimeApart(rows[j], rows[i]) <= 60 * 60
       /\ rows[j].lat # rows[k].lat
       /\ rows[i].lat = rows[k].lat /\ rows[i].lon = rows[k].lon

\* ------------------------------------------------------------ C9 -------
\* C9: the inference pass changes nothing but the coordinate and the
\* geo-source of recipients: place label, proposed folder, timezone and
\* motion fields of every row keep their values, rows that had a coordinate
\* are unchanged, and so is the anchor list.
C9_InferenceFrame ==
  [][pc = "infer" =>
       /\ Len(rows') = Len(rows)
       /\ \A i \in 1 .. Len(rows) :
            /\ rows'[i] = [rows[i] EXCEPT !.lat = rows'[i].lat,
                                          !.lon = rows'[i].lon,
                                          !.geo_source = rows'[i].geo_source]
            /\ HasCoordinate(rows[i]) => rows'[i] = rows[i]
       /\ anchors' = anchors]_vars

\* an inferred row with an offset that still has the default place label,
\* next to a resolved row at the same coordinate
C9_Witness ==
  /\ pc = "write"
  /\ anchors # <<>>
  /\ \E i, j \in 1 .. Len(rows) :
       /\ rows[i].geo_source = "inferred"
       /\ rows[i].timezone # <<>>
       /\ PlaceOfRow(rows[i]) = AsInRow(DefaultPlace)
       /\ rows[j].geo_source = "EXIF"
       /\ rows[j].lat = rows[i].lat /\ rows[j].lon = rows[i].lon
       /\ PlaceOfRow(rows[j]) = AsInRow(PlaceA)

\* ----------------------------------------------------------- C10 -------
\* the UTC offset a timezone column stands for, in seconds
OffsetOfTimezone(tz) ==
  (IF tz[1] = "-" THEN -1 ELSE 1) * (tz[2] * SecondsPerHour + tz[3] * SecondsPerMinute)

\* elapsed seconds between two rows: on UTC when both carry an offset,
\* by wall clock otherwise
ElapsedBetween(r, q) ==
  IF r.timezone # <<>> /\ q.timezone # <<>>
  THEN Abs((RowTime(r) - OffsetOfTimezone(r.timezone))
           - (RowTime(q) - OffsetOfTimezone(q.timezone)))
  ELSE Abs(RowTime(r) - RowTime(q))

GpsRowsBefore(i) == {j \in 1 .. (i - 1) : rows[j].geo_source = "EXIF"}

MaxOf(S) == CHOOSE x \in S : \A y \in S : y <= x

NoMotion(r) ==
  /\ r.miles_from_prev_pic = Nil
  /\ r.hrs_from_prev_pic = Nil
  /\ r.mph_from_prev_pic = Nil

\* C10: the motion fields of a GPS-bearing record are those of the pair it
\* forms with the last GPS-bearing record processed before it; the first
\* GPS-bearing record and the records without GPS have none; the cursor
\* holds the last GPS-bearing record processed.
C10_Original ==
  /\ \A i \in 1 .. Len(rows) :
       IF rows[i].geo_source = "EXIF" /\ GpsRowsBefore(i) # {}
       THEN LET q == rows[MaxOf(GpsRowsBefore(i))]
                d == haversine_miles(rows[i].lat, rows[i].lon, q.lat, q.lon)
                e == ElapsedBetween(rows[i], q)
            IN /\ rows[i].miles_from_prev_pic = d
               /\ rows[i].hrs_from_prev_pic = e
               /\ rows[i].mph_from_prev_pic =
                    (IF e > 0 THEN (d * SecondsPerHour) \div e ELSE Nil)
       ELSE NoMotion(rows[i])
  /\ LET G == GpsRowsBefore(Len(rows) + 1)
     IN IF G = {} THEN prev_lat = Nil /\ prev_lon = Nil
        ELSE /\ prev_lat = rows[MaxOf(G)].lat
             /\ prev_lon = rows[MaxOf(G)].lon
             /\ prev_dt.t = RowTime(rows[MaxOf(G)])
             /\ prev_tz = rows[MaxOf(G)].timezone

\* ----------------------------------------------------------- C11 -------
\* C11: the elapsed hours of every GPS-bearing record that has a preceding
\* GPS-bearing record is the absolute time difference of the two timestamps,
\* on a common UTC reference when both carry an offset and by wall-clock
\* subtraction otherwise, also when exactly one of the two carries an
\* offset; it is never the value of an earlier pair of records.
C11_Original ==
  \A i \in 1 .. Len(rows) :
    (rows[i].geo_source = "EXIF" /\ GpsRowsBefore(i) # {}) =>
      rows[i].hrs_from_prev_pic =
        ElapsedBetween(rows[i], rows[MaxOf(GpsRowsBefore(i))])

\* ----------------------------------------------------------- C12 -------
\* C12: records are consumed in one pass in non-decreasing order of capture
\* time, file-modification time standing in only where the metadata has no
\* capture time; a file with an earlier capture time is never processed
\* after a file with a later capture time.
C12_Original ==
  \A i, j \in 1 .. Len(rows) :
    i < j => RowTime(rows[i]) <= RowTime(rows[j])

\* ----------------------------------------------------------- C13 -------
\* C13: the fixed delay is applied after every external geocode call, whether
\* the call succeeded or failed, so a delay has elapsed between any two
\* consecutive calls of a run.
C13_Original ==
  \A k \in 1 .. Len(geoLog) : geoLog[k].slept

\* ----------------------------------------------------------- C14 -------
\* C14: the anchor list saved to the cache file at the end of a run and
\* loaded at the start of the next run is the same list, same anchors in the
\* same order, so for every query coordinate the cache-hit decision and the
\* matched anchor are the same before saving and after reloading.
C14_CacheRoundTrip ==
  (pc = "done" /\ cache_file) =>
    /\ cacheFile.state = "ok"
    /\ LET reloaded == json_load(cacheFile.text)
       IN /\ reloaded = anchors
          /\ \A lat \in Lats, r \in Radii :
               LET before == AnchorLookup(anchors, lat, 0, r)
                   after == AnchorLookup(reloaded, lat, 0, r)
               IN /\ after = before
                  /\ before # 0 => reloaded[after] = anchors[before]

\* a finished run has saved a loaded anchor followed by two anchors of its
\* own, of different labels, and a query between them hits the first in radius
C14_Witness ==
  /\ pc = "done" /\ cache_file
  /\ Len(loaded) = 1 /\ Len(anchors) = 3
  /\ Len(cacheFile.text) = 3
  /\ PlaceOf(anchors[2]) # PlaceOf(anchors[3])
  /\ PlaceOf(anchors[1]) # PlaceOf(anchors[2])
  /\ \E lat \in Lats :
       /\ AnchorLookup(anchors, lat, 0, 70000) \in 1 .. 2
       /\ Cardinality(InRadius(anchors, <<lat, 0>>, 70000)) >= 2

\* ----------------------------------------------------------- C15 -------
\* C15: the run never halts early: every record is processed (short of the
\* limit of --test50), the inference pass runs, and at the end of the run
\* the catalog holds one row per file and the anchor cache is saved.
C15_Original ==
  /\ pc # "crashed"
  /\ (pc \in {"infer", "write", "done"} /\ ~test50) => Len(rows) = Len(files)
  /\ pc = "done" =>
       /\ csv = rows
       /\ cache_file => cacheFile = CacheFileOk(anchors)

\* ----------------------------------------------------------- C16 -------
\* the capture timestamp field of a metadata record: original, else created
CaptureField(m) ==
  IF m.DateTimeOriginal # <<>> THEN m.DateTimeOriginal ELSE m.CreateDate

\* the first available offset field: original, generic, digitized
OffsetField(m) ==
  IF m.OffsetTimeOriginal # <<>> THEN m.OffsetTimeOriginal
  ELSE IF m.OffsetTime # <<>> THEN m.OffsetTime
  ELSE m.OffsetTimeDigitized

\* C16 as stated: the timezone of a record depends on its metadata only.
\* With a parseable capture timestamp it is the first available of the
\* original, the generic and the digitized offset field, written as UTC, a
\* sign and the hour and minute magnitudes of that offset (the sign is minus
\* exactly when the offset is below zero), and the record has no timezone
\* when there is no offset field; with no timestamp in the metadata the
\* record's time is the file-modification time and its timezone is UTC+00:00.
C16_Original ==
  \A i \in 1 .. Len(rows) :
    LET m == files[rows[i].source].meta
        capture == CaptureField(m)
        off == OffsetField(m)
    IN /\ (capture # <<>> /\ capture[1] \in {FormatColon, FormatDash}) =>
            /\ RowTime(rows[i]) = capture[2]
            /\ IF off = <<>> THEN rows[i].timezone = <<>>
               ELSE rows[i].timezone =
                      <<IF off[1] = "-" /\ off[2] * 60 + off[3] > 0
                        THEN "-" ELSE "+",
                        off[2], off[3]>>
       /\ (m.DateTimeOriginal = <<>> /\ m.CreateDate = <<>>) =>
            /\ RowTime(rows[i]) = files[rows[i].source].mtime
            /\ rows[i].timezone = <<"+", 0, 0>>

\* C16 as amended: with a parseable capture timestamp the timezone is read
\* from the first available of the original, the generic and the digitized
\* offset field; when that field is an offset strictly between -24:00 and
\* +24:00 the timezone is UTC, its sign and its hour and minute magnitudes,
\* and when it is not, the record has no timezone and the later fields are
\* not tried; without an offset field the record has no timezone; when the
\* capture timestamp field is absent or does not parse, the record's time is
\* the file-modification time and its timezone is UTC+00:00.
C16_TimezoneFromValidOffset ==
  \A i \in 1 .. Len(rows) :
    LET m == files[rows[i].source].meta
        capture == CaptureField(m)
        off == OffsetField(m)
    IN IF capture # <<>> /\ capture[1] \in {FormatColon, FormatDash}
       THEN /\ RowTime(rows[i]) = capture[2]
            /\ IF off = <<>> THEN rows[i].timezone = <<>>
               ELSE IF off[2] * 60 + off[3] < 24 * 60
               THEN rows[i].timezone =
                      <<IF off[1] = "-" /\ off[2] * 60 + off[3] > 0
                        THEN "-" ELSE "+",
                        off[2], off[3]>>
               ELSE rows[i].timezone = <<>>
       ELSE /\ RowTime(rows[i]) = files[rows[i].source].mtime
            /\ rows[i].timezone = <<"+", 0, 0>>

\* a catalog row with a parsed timestamp and no timezone, although its
\* metadata has the original offset +24:00 and the generic offset -00:30
C16_Witness ==
  /\ pc = "done"
  /\ \E i \in 1 .. Len(csv) :
       LET m == files[csv[i].source].meta
       IN /\ m.DateTimeOriginal = <<>>
          /\ m.CreateDate = <<FormatDash, CaptureLate>>
          /\ m.OffsetTimeOriginal = <<"+", 24, 0>>
          /\ m.OffsetTime = <<"-", 0, 30>>
          /\ csv[i].timezone = <<>>
          /\ RowTime(csv[i]) = CaptureLate

\* ----------------------------------------------------------- C17 -------
\* the first populated field of an address in a preference order, or ""
RECURSIVE FirstPopulated(_, _, _)
FirstPopulated(addr, keys, i) ==
  IF i > Len(keys) THEN ""
  ELSE IF keys[i] \in DOMAIN addr /\ addr[keys[i]] # "" THEN addr[keys[i]]
  ELSE FirstPopulated(addr, keys, i + 1)

\* C17: for every address returned by the service the city is the first
\* populated field in the order city, town, village, hamlet, municipality,
\* county, state, country, and the neighborhood the first populated field in
\* the order neighbourhood, suburb, quarter, locality, borough, district; a
\* field that is present but empty never wins over a later populated one.
C17_Original ==
  \A i \in 1 .. Len(rows) :
    (/\ "addr" \in DOMAIN files[rows[i].source]
     /\ rows[i].geo_source = "EXIF"
     /\ loaded = <<>> /\ GpsRowsBefore(i) = {}) =>
      LET addr == files[rows[i].source].addr
          city == FirstPopulated(addr,
                    <<"city", "town", "village", "hamlet", "municipality",
                      "county", "state", "country">>, 1)
          hood == FirstPopulated(addr,
                    <<"neighbourhood", "suburb", "quarter", "locality",
                      "borough", "district">>, 1)
      IN /\ city # "" =>
              rows[i].city_label =
                CityLabel(city, Get(addr, "state"),
                          Upper(Get(addr, "country_code")))
         /\ rows[i].neighborhood = hood

\* ----------------------------------------------------------- C18 -------
\* the anchors of a list are pairwise more than r apart
PairwiseApart(as, r) ==
  \A i, j \in 1 .. Len(as) :
    i # j => haversine_miles(as[i].lat, as[i].lon, as[j].lat, as[j].lon) > r

\* C18: every anchor appended during a run is farther than radius from every
\* anchor that was in the list when it was appended; from an empty cache any
\* two anchors of the list are more than radius apart in every state; after
\* a GPS-bearing record is processed some anchor is within radius of its
\* coordinate.
C18_AnchorsApart ==
  [][/\ Len(anchors') = Len(anchors) + 1 =>
          \A i \in 1 .. Len(anchors) :
            haversine_miles(Last(anchors').lat, Last(anchors').lon,
                            anchors[i].lat, anchors[i].lon) > radius_mi
     /\ loaded' = <<>> => PairwiseApart(anchors', radius_mi)
     /\ (Processed /\ LoopOnGps) =>
          InRadius(anchors', files[idx].gps, radius_mi) # {}]_vars

\* from an empty cache two records two degrees apart have each registered an
\* anchor, and a third record in between has matched the first of them
C18_Witness ==
  /\ loaded = <<>>
  /\ radius_mi = 70000
  /\ pc \in {"loop", "infer"}
  /\ Len(anchors) = 2
  /\ Abs(anchors[1].lat - anchors[2].lat) = 2
  /\ Len(geoLog) = 2
  /\ rows # <<>> /\ Last(rows).geo_source = "EXIF"
  /\ InRadius(anchors, <<Last(rows).lat, Last(rows).lon>>, radius_mi) # {}

====
